---- MODULE Spec2Model ----
(***************************************************************************)
(* Model of tools/aquestalk_tts_cmd/AquesTalkTtsCmd.cpp: the command-line  *)
(* driver that loads AqKanji2Koe.dll and AquesTalk.dll, converts stdin     *)
(* line by line to a koe (phoneme) string, synthesizes one waveform and    *)
(* writes it to a file.  main() is sequential; each action below is one    *)
(* step of main(), and the native components, the file system and stdin    *)
(* are the environment, whose answers are drawn with \E.                   *)
(*                                                                         *)
(* Strings are sequences of one-character strings.  Every call that main() *)
(* makes across the foreign boundary is appended to the history variable   *)
(* calls, so that the order and the number of calls can be stated.         *)
(***************************************************************************)
EXTENDS Integers, Sequences, FiniteSets, TLC

\* ------------------------------------------------------------------ bounds

\* longest stdin text (in characters) the environment supplies
MaxInput == 4

\* longest koe text (in characters) one Convert call writes to koe_buf
MaxKoe == 1

\* characters stdin is made of: a letter, a blank, a line feed
InputChars == {"a", " ", "\n"}

\* characters a conversion result is made of: a phoneme and a blank ("/" is
\* left to the pause separator that main inserts between lines)
KoeChars == {"k", " "}

\* values given to --speed (none given: the default applies)
SpeedArgs == {49, 50, 300, 301}

\* values given to --encoding (none given: "utf8")
EncodingArgs == {"utf8", "sjis", "cp932", "latin1"}

\* return codes of AqKanji2Koe_Convert_*: 0 is success
ConvertCodes == {0, 105}

\* sizes AquesTalk_Synthe* reports through pSize
WavSizes == {0, 44}

RECURSIVE StringsUpTo(_, _)
StringsUpTo(chars, n) ==
  IF n = 0 THEN {<<>>}
  ELSE LET shorter == StringsUpTo(chars, n - 1)
       IN  shorter \cup {Append(s, c) : s \in shorter, c \in chars}

\* ------------------------------------------------------------------ state

VARIABLES
  pc,          \* position in main()
  exitCode,    \* value returned by main(); -1 while running
  status,      \* which diagnostic (or result line) was printed
  use_sjis,    \* const bool use_sjis
  speedArg,    \* the integer parsed from --speed (the default when absent)
  speed,       \* int speed, after clamping
  dev_key,     \* TRUE iff dev_key is a non-empty string
  usr_key,     \* TRUE iff usr_key is a non-empty string
  exists,      \* answers of fs::exists for the three required paths
  listed,      \* the paths the "Missing SDK files" diagnostic lists
  k2k_api,     \* std::optional<AqKanji2KoeApi>
  tk_api,      \* std::optional<AquesTalkApi>
  h,           \* void *h : "null" or "session"
  stdin,       \* what read_all_stdin() returned; <<>> before the read
  inputRead,   \* TRUE once stdin was read
  lines,       \* std::vector<std::string> lines
  idx,         \* index of the line the for loop is at (1-based)
  koe_all,     \* std::string koe_all
  parts,       \* history: koe_part of every successful Convert, in order
  wav,         \* unsigned char *wav : "null" or "buffer"
  wav_size,    \* int wav_size
  outFile,     \* the destination file: "absent", "empty", "partial", "wave"
  printed,     \* TRUE iff the output path was written to stdout
  calls        \* history: the foreign calls made so far, in order

vars == <<pc, exitCode, status, use_sjis, speedArg, speed, dev_key, usr_key,
          exists, listed, k2k_api, tk_api, h, stdin, inputRead, lines, idx, koe_all,
          parts, wav, wav_size, outFile, printed, calls>>

\* ------------------------------------------------------- pure functions

\* the lambda is_space in trim
IsSpace_NoNewline(c) == c \in {" ", "\t", "\r"}
IsSpace(c) == c \in {" ", "\t", "\r", "\n"}

RECURSIVE TrimFront(_)
TrimFront(s) ==
  IF s # <<>> /\ IsSpace(Head(s)) THEN TrimFront(Tail(s)) ELSE s

RECURSIVE TrimBack(_)
TrimBack(s) ==
  IF s # <<>> /\ IsSpace(s[Len(s)]) THEN TrimBack(SubSeq(s, 1, Len(s) - 1))
  ELSE s

trim(s) == TrimBack(TrimFront(s))

\* the for loop of split_lines: i is the next character, cur and out its locals
RECURSIVE SplitLoop(_, _, _, _)
SplitLoop(s, i, cur, out) ==
  IF i > Len(s) THEN Append(out, cur)
  ELSE IF s[i] = "\r" THEN SplitLoop(s, i + 1, cur, out)
  ELSE IF s[i] = "\n" THEN SplitLoop(s, i + 1, <<>>, Append(out, cur))
  ELSE SplitLoop(s, i + 1, Append(cur, s[i]), out)

split_lines(s) == SplitLoop(s, 1, <<>>, <<>>)

\* speed after the two clamping statements
Clamp_NoUpper(s) == IF s < 50 THEN 50 ELSE s
Clamp(s) ==
  LET lo == IF s < 50 THEN 50 ELSE s
  IN  IF lo > 300 THEN 300 ELSE lo

\* use_sjis from the --encoding value
UseSjis(encoding) == encoding \in {"sjis", "shiftjis", "cp932"}

\* koe_all after one loop iteration appended koe_part
AppendPart_AlwaysSep(all, part) == all \o <<"/">> \o part
AppendPart(all, part) ==
  IF all # <<>> THEN all \o <<"/">> \o part ELSE part

\* ------------------------------------------------------- call history

\* one foreign call: the entry point, the library or encoding it belongs to,
\* its integer argument (line index, speed) and what it returned
Call(op, who, arg, ret) == [op |-> op, who |-> who, arg |-> arg, ret |-> ret]

Count(op, who) ==
  Cardinality({i \in 1..Len(calls) : calls[i].op = op /\ calls[i].who = who})

CountOp(op) == Cardinality({i \in 1..Len(calls) : calls[i].op = op})

\* positions in calls of the calls of one operation
Positions(op) == {i \in 1..Len(calls) : calls[i].op = op}

None == [has |-> FALSE, syms |-> {}]
Some(syms) == [has |-> TRUE, syms |-> syms]

K2kSymbols == {"Create", "Release", "ConvertUtf8", "ConvertSjis", "SetDevKey"}
TkSymbols == {"Synthe", "SyntheUtf8", "FreeWave", "SetDevKey", "SetUsrKey"}

\* k2k_dll, k2k_dic, tk_dll
RequiredPaths == {"k2k_dll", "k2k_dic", "tk_dll"}

cfgVars == <<use_sjis, speedArg, speed, dev_key, usr_key>>
loadVars == <<exists, listed, k2k_api, tk_api>>
convVars == <<h, stdin, inputRead, lines, idx, koe_all, parts>>
outVars == <<wav, wav_size, outFile, printed>>

\* return code; from main, after printing the diagnostic msg
Exit(code, msg) ==
  /\ pc' = "exit"
  /\ exitCode' = code
  /\ status' = msg

\* fall through to the next statement of main
Goto(label) ==
  /\ pc' = label
  /\ UNCHANGED <<exitCode, status>>

\* the entry points of the encoding in use
Enc == IF use_sjis THEN "sjis" ELSE "utf8"

\* ------------------------------------------------------------------ Init

Init ==
  /\ pc = "args"
  /\ exitCode = -1
  /\ status = "none"
  /\ use_sjis = FALSE
  /\ speedArg = 100
  /\ speed = 100
  /\ dev_key = FALSE
  /\ usr_key = FALSE
  /\ exists = [p \in RequiredPaths |-> FALSE]
  /\ listed = {}
  /\ k2k_api = None
  /\ tk_api = None
  /\ h = "null"
  /\ stdin = <<>>
  /\ inputRead = FALSE
  /\ lines = <<>>
  /\ idx = 1
  /\ koe_all = <<>>
  /\ parts = <<>>
  /\ wav = "null"
  /\ wav_size = 0
  /\ outFile = "absent"
  /\ printed = FALSE
  /\ calls = <<>>

\* ------------------------------------------------------------ main: options

\* --help or -h: usage(), return 0
ParseArgsHelp ==
  /\ pc = "args"
  /\ Exit(0, "usage")
  /\ UNCHANGED <<cfgVars, loadVars, convVars, outVars, calls>>

\* std::stoi throws on the --speed value
ParseArgsBadSpeed ==
  /\ pc = "args"
  /\ Exit(2, "invalid_speed")
  /\ UNCHANGED <<cfgVars, loadVars, convVars, outVars, calls>>

\* no --aquestalk-root and find_aquestalk_root_from finds none
ParseArgsNoRoot ==
  /\ pc = "args"
  /\ Exit(2, "no_root")
  /\ UNCHANGED <<cfgVars, loadVars, convVars, outVars, calls>>

\* every option parsed: encoding, speed (clamped), keys, paths
ParseArgsOk ==
  /\ pc = "args"
  /\ \E encoding \in EncodingArgs, s \in SpeedArgs \cup {100},
        dk \in BOOLEAN, uk \in BOOLEAN :
       /\ use_sjis' = UseSjis(encoding)
       /\ speedArg' = s
       /\ speed' = Clamp(s)
       /\ dev_key' = dk
       /\ usr_key' = uk
  /\ Goto("preflight")
  /\ UNCHANGED <<loadVars, convVars, outVars, calls>>

ParseArgs == ParseArgsHelp \/ ParseArgsBadSpeed \/ ParseArgsNoRoot \/ ParseArgsOk

\* ---------------------------------------------------- main: required files

\* the condition of the pre-flight if
MissingSdk_TwoOfThree(ex) == ~ex["k2k_dll"] \/ ~ex["k2k_dic"]
MissingSdk(ex) == ~ex["k2k_dll"] \/ ~ex["k2k_dic"] \/ ~ex["tk_dll"]

Preflight ==
  /\ pc = "preflight"
  /\ \E ex \in [RequiredPaths -> BOOLEAN] :
       /\ exists' = ex
       /\ IF MissingSdk(ex)
          THEN /\ listed' = RequiredPaths
               /\ Exit(2, "missing_sdk_files")
          ELSE /\ listed' = {}
               /\ Goto("load_k2k")
  /\ UNCHANGED <<cfgVars, k2k_api, tk_api, convVars, outVars, calls>>

\* ------------------------------------------------------------ the loaders

\* load_kanji2koe / load_aquestalk: loaded is LoadLibraryW's answer, resolved
\* the entry points GetProcAddress finds; api is the optional returned and
\* made the library calls issued
Loader_PartialBinding(lib, symbols, loaded, resolved) ==
  IF ~loaded
  THEN [api |-> None, made |-> <<Call("LoadLibrary", lib, 0, 0)>>]
  ELSE IF resolved = {}
  THEN [api |-> None,
        made |-> <<Call("LoadLibrary", lib, 0, 1), Call("FreeLibrary", lib, 0, 0)>>]
  ELSE [api |-> Some(resolved), made |-> <<Call("LoadLibrary", lib, 0, 1)>>]

Loader(lib, symbols, loaded, resolved) ==
  IF ~loaded
  THEN [api |-> None, made |-> <<Call("LoadLibrary", lib, 0, 0)>>]
  ELSE IF resolved # symbols
  THEN [api |-> None,
        made |-> <<Call("LoadLibrary", lib, 0, 1), Call("FreeLibrary", lib, 0, 0)>>]
  ELSE [api |-> Some(resolved), made |-> <<Call("LoadLibrary", lib, 0, 1)>>]

load_kanji2koe(loaded, resolved) == Loader("k2k", K2kSymbols, loaded, resolved)

load_aquestalk(loaded, resolved) == Loader("tk", TkSymbols, loaded, resolved)

LoadKanji2Koe ==
  /\ pc = "load_k2k"
  /\ \E loaded \in BOOLEAN, resolved \in SUBSET K2kSymbols :
       LET r == load_kanji2koe(loaded, resolved) IN
       /\ k2k_api' = r.api
       /\ calls' = calls \o r.made
       /\ IF ~r.api.has THEN Exit(3, "load_k2k_failed") ELSE Goto("load_tk")
  /\ UNCHANGED <<cfgVars, exists, listed, tk_api, convVars, outVars>>

LoadAquesTalk_Continue ==
  /\ pc = "load_tk"
  /\ \E loaded \in BOOLEAN, resolved \in SUBSET TkSymbols :
       LET r == load_aquestalk(loaded, resolved) IN
       /\ tk_api' = r.api
       /\ calls' = calls \o r.made
  /\ Goto("keys")
  /\ UNCHANGED <<cfgVars, exists, listed, k2k_api, convVars, outVars>>

LoadAquesTalk ==
  /\ pc = "load_tk"
  /\ \E loaded \in BOOLEAN, resolved \in SUBSET TkSymbols :
       LET r == load_aquestalk(loaded, resolved) IN
       /\ tk_api' = r.api
       /\ calls' = calls \o r.made
       /\ IF ~r.api.has THEN Exit(3, "load_tk_failed") ELSE Goto("keys")
  /\ UNCHANGED <<cfgVars, exists, listed, k2k_api, convVars, outVars>>

\* ------------------------------------------------------------ license keys

SetKeys_DevKeyK2kOnly ==
  /\ pc = "keys"
  /\ calls' = calls
       \o (IF dev_key THEN <<Call("SetDevKey", "k2k", 0, 0)>> ELSE <<>>)
       \o (IF usr_key THEN <<Call("SetUsrKey", "tk", 0, 0)>> ELSE <<>>)
  /\ Goto("create")
  /\ UNCHANGED <<cfgVars, loadVars, convVars, outVars>>

SetKeys ==
  /\ pc = "keys"
  /\ calls' = calls
       \o (IF dev_key
           THEN <<Call("SetDevKey", "k2k", 0, 0), Call("SetDevKey", "tk", 0, 0)>>
           ELSE <<>>)
       \o (IF usr_key THEN <<Call("SetUsrKey", "tk", 0, 0)>> ELSE <<>>)
  /\ Goto("create")
  /\ UNCHANGED <<cfgVars, loadVars, convVars, outVars>>

\* ------------------------------------------------------------ the session

\* AqKanji2Koe_Create on the dictionary path; a null handle is fatal
Create ==
  /\ pc = "create"
  /\ \E ok \in BOOLEAN :
       IF ok
       THEN /\ h' = "session"
            /\ calls' = Append(calls, Call("Create", "k2k", 0, 1))
            /\ Goto("read")
       ELSE /\ h' = "null"
            /\ calls' = Append(calls, Call("Create", "k2k", 0, 0))
            /\ Exit(4, "create_failed")
  /\ UNCHANGED <<cfgVars, loadVars, stdin, inputRead, lines, idx, koe_all, parts,
                 outVars>>

\* ------------------------------------------------------------ reading stdin

\* input = trim(read_all_stdin()) is empty: release the session, return 2
ReadInputEmpty_NoRelease ==
  /\ pc = "read"
  /\ \E raw \in StringsUpTo(InputChars, MaxInput) :
       /\ trim(raw) = <<>>
       /\ stdin' = raw
  /\ inputRead' = TRUE
  /\ Exit(2, "no_input")
  /\ UNCHANGED <<cfgVars, loadVars, h, lines, idx, koe_all, parts, outVars, calls>>

ReadInputEmpty_Continue ==
  /\ pc = "read"
  /\ \E raw \in StringsUpTo(InputChars, MaxInput) :
       /\ trim(raw) = <<>>
       /\ stdin' = raw
       /\ lines' = split_lines(trim(raw))
  /\ inputRead' = TRUE
  /\ idx' = 1
  /\ koe_all' = <<>>
  /\ Goto("loop")
  /\ UNCHANGED <<cfgVars, loadVars, h, parts, outVars, calls>>

ReadInputEmpty ==
  /\ pc = "read"
  /\ \E raw \in StringsUpTo(InputChars, MaxInput) :
       /\ trim(raw) = <<>>
       /\ stdin' = raw
  /\ inputRead' = TRUE
  /\ calls' = Append(calls, Call("Release", "k2k", 0, 0))
  /\ Exit(2, "no_input")
  /\ UNCHANGED <<cfgVars, loadVars, h, lines, idx, koe_all, parts, outVars>>

\* input is not empty: lines = split_lines(input), koe_all starts empty
ReadInputLines ==
  /\ pc = "read"
  /\ \E raw \in StringsUpTo(InputChars, MaxInput) :
       /\ trim(raw) # <<>>
       /\ stdin' = raw
       /\ lines' = split_lines(trim(raw))
  /\ inputRead' = TRUE
  /\ idx' = 1
  /\ koe_all' = <<>>
  /\ Goto("loop")
  /\ UNCHANGED <<cfgVars, loadVars, h, parts, outVars, calls>>

ReadInput == ReadInputEmpty \/ ReadInputLines

\* ------------------------------------------------------- the conversion loop

\* a line that is empty after trim: continue, no Convert call
LoopSkipBlank ==
  /\ pc = "loop"
  /\ idx <= Len(lines)
  /\ trim(lines[idx]) = <<>>
  /\ idx' = idx + 1
  /\ Goto("loop")
  /\ UNCHANGED <<cfgVars, loadVars, h, stdin, inputRead, lines, koe_all, parts,
                 outVars, calls>>

\* Convert returns rc # 0: release the session, return 4
LoopConvertFail_Skip ==
  /\ pc = "loop"
  /\ idx <= Len(lines)
  /\ trim(lines[idx]) # <<>>
  /\ \E rc \in ConvertCodes \ {0} :
       calls' = Append(calls, Call("Convert", Enc, idx, rc))
  /\ idx' = idx + 1
  /\ Goto("loop")
  /\ UNCHANGED <<cfgVars, loadVars, h, stdin, inputRead, lines, koe_all, parts,
                 outVars>>

LoopConvertFail_RetryOnce ==
  /\ pc = "loop"
  /\ idx <= Len(lines)
  /\ trim(lines[idx]) # <<>>
  /\ \E rc \in ConvertCodes \ {0} :
       IF \E i \in 1..Len(calls) : calls[i].op = "Convert" /\ calls[i].ret # 0
       THEN /\ calls' = calls \o <<Call("Convert", Enc, idx, rc),
                                    Call("Release", "k2k", 0, 0)>>
            /\ Exit(4, "convert_failed")
       ELSE /\ calls' = Append(calls, Call("Convert", Enc, idx, rc))
            /\ Goto("loop")
  /\ UNCHANGED <<cfgVars, loadVars, convVars, outVars>>

LoopConvertFail ==
  /\ pc = "loop"
  /\ idx <= Len(lines)
  /\ trim(lines[idx]) # <<>>
  /\ \E rc \in ConvertCodes \ {0} :
       calls' = calls \o <<Call("Convert", Enc, idx, rc),
                           Call("Release", "k2k", 0, 0)>>
  /\ Exit(4, "convert_failed")
  /\ UNCHANGED <<cfgVars, loadVars, convVars, outVars>>

\* Convert returns 0 and wrote out to koe_buf: koe_part = trim(out) is
\* dropped when empty, else appended to koe_all after a "/" if koe_all is
\* not empty
LoopConvertOk ==
  /\ pc = "loop"
  /\ idx <= Len(lines)
  /\ trim(lines[idx]) # <<>>
  /\ \E out \in StringsUpTo(KoeChars, MaxKoe) :
       LET koe_part == trim(out) IN
       /\ parts' = Append(parts, koe_part)
       /\ koe_all' = IF koe_part = <<>> THEN koe_all
                     ELSE AppendPart(koe_all, koe_part)
  /\ calls' = Append(calls, Call("Convert", Enc, idx, 0))
  /\ idx' = idx + 1
  /\ Goto("loop")
  /\ UNCHANGED <<cfgVars, loadVars, h, stdin, inputRead, lines, outVars>>

\* after the loop: release the session; an empty koe_all returns 4
EndLoop_Exit2 ==
  /\ pc = "loop"
  /\ idx > Len(lines)
  /\ calls' = Append(calls, Call("Release", "k2k", 0, 0))
  /\ IF koe_all = <<>> THEN Exit(2, "empty_koe") ELSE Goto("synth")
  /\ UNCHANGED <<cfgVars, loadVars, convVars, outVars>>

EndLoop ==
  /\ pc = "loop"
  /\ idx > Len(lines)
  /\ calls' = Append(calls, Call("Release", "k2k", 0, 0))
  /\ IF koe_all = <<>> THEN Exit(4, "empty_koe") ELSE Goto("synth")
  /\ UNCHANGED <<cfgVars, loadVars, convVars, outVars>>

\* ------------------------------------------------------------ synthesis

\* AquesTalk_Synthe / AquesTalk_Synthe_Utf8 on koe_all; a null buffer or a
\* size <= 0 returns 5
Synthesize_Utf8Only ==
  /\ pc = "synth"
  /\ \E w \in {"null", "buffer"}, sz \in WavSizes :
       /\ wav' = w
       /\ wav_size' = sz
       /\ calls' = Append(calls, Call("Synthe", "utf8", speed, sz))
       /\ IF w = "null" \/ sz <= 0
          THEN Exit(5, "synthe_failed")
          ELSE Goto("open")
  /\ UNCHANGED <<cfgVars, loadVars, convVars, outFile, printed>>

Synthesize_IgnoreSize ==
  /\ pc = "synth"
  /\ \E w \in {"null", "buffer"}, sz \in WavSizes :
       /\ wav' = w
       /\ wav_size' = sz
       /\ calls' = Append(calls, Call("Synthe", Enc, speed, sz))
       /\ IF w = "null"
          THEN Exit(5, "synthe_failed")
          ELSE Goto("open")
  /\ UNCHANGED <<cfgVars, loadVars, convVars, outFile, printed>>

Synthesize ==
  /\ pc = "synth"
  /\ \E w \in {"null", "buffer"}, sz \in WavSizes :
       /\ wav' = w
       /\ wav_size' = sz
       /\ calls' = Append(calls, Call("Synthe", Enc, speed, sz))
       /\ IF w = "null" \/ sz <= 0
          THEN Exit(5, "synthe_failed")
          ELSE Goto("open")
  /\ UNCHANGED <<cfgVars, loadVars, convVars, outFile, printed>>

\* ------------------------------------------------------------ the output file

\* create_directories (failure ignored), then open the file; a failed open
\* frees the buffer and returns 6
OpenOutput ==
  /\ pc = "open"
  /\ \E dirOk \in BOOLEAN, openOk \in BOOLEAN :
       IF openOk
       THEN /\ outFile' = "empty"
            /\ calls' = calls
            /\ Goto("write")
       ELSE /\ outFile' = "absent"
            /\ calls' = Append(calls, Call("FreeWave", "tk", 0, 0))
            /\ Exit(6, "open_failed")
  /\ UNCHANGED <<cfgVars, loadVars, convVars, wav, wav_size, printed>>

\* ofs.write, ofs.close, FreeWave, print the path, return 0; the stream
\* state after write is not inspected
WriteOutput_FreeFirst ==
  /\ pc = "write"
  /\ \E writeOk \in BOOLEAN :
       outFile' = IF writeOk THEN "wave" ELSE "partial"
  /\ calls' = calls \o <<Call("FreeWave", "tk", 0, 0),
                          Call("write", "ofs", wav_size, 0)>>
  /\ printed' = TRUE
  /\ Exit(0, "ok")
  /\ UNCHANGED <<cfgVars, loadVars, convVars, wav, wav_size>>

WriteOutput ==
  /\ pc = "write"
  /\ \E writeOk \in BOOLEAN :
       outFile' = IF writeOk THEN "wave" ELSE "partial"
  /\ calls' = calls \o <<Call("write", "ofs", wav_size, 0),
                          Call("FreeWave", "tk", 0, 0)>>
  /\ printed' = TRUE
  /\ Exit(0, "ok")
  /\ UNCHANGED <<cfgVars, loadVars, convVars, wav, wav_size>>

\* ------------------------------------------------------------ specification

Next ==
  \/ ParseArgs
  \/ Preflight
  \/ LoadKanji2Koe
  \/ LoadAquesTalk
  \/ SetKeys
  \/ Create
  \/ ReadInput
  \/ LoopSkipBlank
  \/ LoopConvertFail
  \/ LoopConvertOk
  \/ EndLoop
  \/ Synthesize
  \/ OpenOutput
  \/ WriteOutput

Spec == Init /\ [][Next]_vars

\* every statement of main and every foreign call returns, so a step that
\* can be taken is taken
FairSpec == Spec /\ WF_vars(Next)

\* ------------------------------------------------------------ vocabulary

Done == pc = "exit"

\* Create returned a session
SessionCreated == \E i \in Positions("Create") : calls[i].ret = 1

\* Create returned a null handle
CreateFailed == \E i \in Positions("Create") : calls[i].ret = 0

\* some Convert call returned a non-zero code
ConvertFailed == \E i \in Positions("Convert") : calls[i].ret # 0

\* the pre-flight existence check has run
PreflightDone ==
  /\ pc \notin {"args", "preflight"}
  /\ status \notin {"usage", "invalid_speed", "no_root"}

\* the characters of a blank line, and of the line breaks between them
BlankChars == {" ", "\t", "\r", "\n"}

\* s is not empty and holds only blank or whitespace lines
OnlyBlankLines(s) == s # <<>> /\ \A i \in 1..Len(s) : s[i] \in BlankChars

\* the conversion results that are not empty, in call order
NonEmptyParts == SelectSeq(parts, LAMBDA p : p # <<>>)

RECURSIVE JoinSlash(_)
JoinSlash(ss) ==
  IF ss = <<>> THEN <<>>
  ELSE IF Len(ss) = 1 THEN ss[1]
  ELSE ss[1] \o <<"/">> \o JoinSlash(Tail(ss))

\* number of "/" in a koe string
Separators(s) == Cardinality({i \in 1..Len(s) : s[i] = "/"})

\* the lines before the loop position that are not blank
ConvertedLines == {i \in 1..(idx - 1) : i <= Len(lines) /\ trim(lines[i]) # <<>>}

\* the loop ran over every line, every Convert succeeded, the session was
\* released and the assembled stream is empty
EmptyConversion ==
  /\ inputRead
  /\ lines # <<>>
  /\ idx > Len(lines)
  /\ ~ConvertFailed
  /\ CountOp("Release") = 1
  /\ koe_all = <<>>

\* ------------------------------------------------------------ claims

\* C1: a session that Create returned is released exactly once by the time
\* the process exits, on every exit branch, and never more than once on the
\* way; when Create failed (or was never called) Release is never called.
C1_ReleaseExactlyOnce ==
  /\ CountOp("Release") <= (IF SessionCreated THEN 1 ELSE 0)
  /\ (Done /\ SessionCreated) => CountOp("Release") = 1
  /\ CreateFailed => CountOp("Release") = 0

C1_Witness == Done /\ SessionCreated /\ status = "no_input" /\ CountOp("Release") = 1

\* C2 (as claimed): after the Synthesize call, at exit, FreeWave has been
\* called exactly once if and only if Synthesize returned a non-null buffer,
\* the buffer with a size that is not positive included.
C2_FreeWaveIffBuffer ==
  (Done /\ CountOp("Synthe") = 1) =>
    /\ (wav = "buffer") => CountOp("FreeWave") = 1
    /\ (wav = "null") => CountOp("FreeWave") = 0

\* C3 (as claimed): at exit, every library whose loader returned a bound
\* capability set has been unloaded exactly once.
C3_ModulesUnloaded ==
  Done =>
    /\ k2k_api.has => Count("FreeLibrary", "k2k") = 1
    /\ tk_api.has => Count("FreeLibrary", "tk") = 1

\* C4: once a Convert call has returned a non-zero code the run is over with
\* exit code 4: that call is the last Convert call, no Synthesize call was
\* made and no output file exists.
C4_ConvertFailureHalts ==
  ConvertFailed =>
    /\ Done
    /\ exitCode = 4
    /\ status = "convert_failed"
    /\ calls[Len(calls) - 1].op = "Convert" /\ calls[Len(calls) - 1].ret # 0
    /\ \A i \in Positions("Convert") : i < Len(calls) - 1 => calls[i].ret = 0
    /\ CountOp("Synthe") = 0
    /\ outFile = "absent"
    /\ ~printed

\* the first line fails while another non-blank line is still to come
C4_Witness ==
  /\ ConvertFailed
  /\ idx < Len(lines)
  /\ \E j \in (idx + 1)..Len(lines) : trim(lines[j]) # <<>>

\* C5 (as claimed): when the standard input read is empty after trimming, the
\* run halts with the "no input" status, exit code 2, and no Create call has
\* been made.
C5_NoInputBeforeCreate ==
  (inputRead /\ trim(stdin) = <<>>) =>
    /\ Done /\ exitCode = 2 /\ status = "no_input"
    /\ CountOp("Create") = 0

\* C5 (amended): standard input is read only after Create returned a session;
\* when it is empty after trimming, the run halts at once with the "no input"
\* status, exit code 2, after that one Create call and before any Convert or
\* Synthesize call, and the session is released.
C5_NoInputAfterCreate ==
  /\ inputRead => (SessionCreated /\ CountOp("Create") = 1)
  /\ (inputRead /\ trim(stdin) = <<>>) =>
       /\ Done /\ exitCode = 2 /\ status = "no_input"
       /\ CountOp("Convert") = 0
       /\ CountOp("Synthe") = 0
       /\ calls[Len(calls)].op = "Release"

C5_Witness == inputRead /\ stdin = <<>> /\ Done /\ status = "no_input"

\* C6 (as claimed): when standard input holds only blank or whitespace lines,
\* the run halts with the "empty conversion" status and writes no output file.
C6_BlankLinesEmptyConversion ==
  (inputRead /\ OnlyBlankLines(stdin) /\ Done) =>
    /\ status = "empty_koe"
    /\ outFile = "absent"

\* C6 (amended): when standard input holds only blank or whitespace lines it
\* is empty after trimming, so the run halts with the "no input" status (exit
\* code 2), makes no Convert call and writes no output file; the "empty
\* conversion" halt is taken only after at least one Convert call, on input
\* that has a non-blank line.
C6_BlankLinesNoInput ==
  /\ (inputRead /\ OnlyBlankLines(stdin)) =>
       /\ Done /\ exitCode = 2 /\ status = "no_input"
       /\ CountOp("Convert") = 0
       /\ outFile = "absent" /\ ~printed
  /\ status = "empty_koe" =>
       /\ CountOp("Convert") >= 1
       /\ ~OnlyBlankLines(stdin)
       /\ outFile = "absent" /\ ~printed

C6_Witness ==
  /\ inputRead /\ Done
  /\ OnlyBlankLines(stdin)
  /\ \E i \in 1..Len(stdin) : stdin[i] = "\n"
  /\ \E i \in 1..Len(stdin) : stdin[i] = " "

\* C7 (as claimed): when every Convert call succeeded and the assembled stream
\* is empty, the exit code is 2 and not 4.
C7_EmptyConversionExit2 ==
  EmptyConversion => (Done /\ exitCode = 2 /\ exitCode # 4)

\* C7 (amended): when every Convert call succeeded and the assembled stream is
\* empty, the run halts with the "empty conversion" diagnostic and exit code
\* 4, the text-to-phoneme failure code, and not with 2.
C7_EmptyConversionExit4 ==
  EmptyConversion => (Done /\ status = "empty_koe" /\ exitCode = 4)

C7_Witness ==
  /\ EmptyConversion
  /\ CountOp("Convert") >= 1
  /\ \A i \in Positions("Convert") : calls[i].ret = 0

C9_WriteFailureFatal ==
  (Done /\ (status = "open_failed" \/ outFile = "partial")) =>
    /\ exitCode = 6
    /\ ~printed
    /\ CountOp("FreeWave") = 1

\* C10: when one of the three required paths does not exist the run halts
\* with exit code 2 and no LoadLibrary call; a LoadLibrary call is made only
\* when all three paths were found to exist.
C10_PreflightBeforeLoad ==
  /\ (PreflightDone /\ \E p \in RequiredPaths : ~exists[p]) =>
       /\ Done /\ exitCode = 2 /\ status = "missing_sdk_files"
       /\ CountOp("LoadLibrary") = 0
  /\ CountOp("LoadLibrary") > 0 =>
       (PreflightDone /\ \A p \in RequiredPaths : exists[p])

\* only the voice library is missing
C10_Witness ==
  /\ PreflightDone
  /\ exists["k2k_dll"] /\ exists["k2k_dic"] /\ ~exists["tk_dll"]
  /\ Done

\* C11 (as claimed): when the pre-flight check fails, the paths the diagnostic
\* lists are exactly the required paths that do not exist.
C11_ListsExactlyMissing ==
  status = "missing_sdk_files" => listed = {p \in RequiredPaths : ~exists[p]}

\* the speed the claim expects for a requested speed s
ExpectedSpeed(s) == IF s < 50 THEN 50 ELSE IF s > 300 THEN 300 ELSE s

\* C12: every Synthesize call is handed min(max(s, 50), 300) for the requested
\* speed s, which lies in 50..300; the variable speed holds that value from
\* option parsing on.
C12_SpeedClamped ==
  /\ pc # "args" => speed = ExpectedSpeed(speedArg)
  /\ \A i \in Positions("Synthe") :
       /\ calls[i].arg = ExpectedSpeed(speedArg)
       /\ calls[i].arg >= 50 /\ calls[i].arg <= 300

\* a request of 301 reached Synthesize as 300
C12_Witness ==
  /\ speedArg = 301
  /\ \E i \in Positions("Synthe") : calls[i].arg = 300

\* what the loader of one library left behind: api is the optional it returned
LoaderSound(lib, symbols, api) ==
  /\ api.has =>
       /\ api.syms = symbols
       /\ \E i \in Positions("LoadLibrary") : calls[i].who = lib /\ calls[i].ret = 1
       /\ Count("FreeLibrary", lib) = 0
  /\ \A i \in Positions("LoadLibrary") :
       calls[i].who = lib =>
         /\ (calls[i].ret = 0) => (~api.has /\ Count("FreeLibrary", lib) = 0)
         /\ (calls[i].ret = 1 /\ ~api.has) =>
              (i < Len(calls) /\ calls[i + 1] = Call("FreeLibrary", lib, 0, 0))

\* C13: a loader returns a capability set only when the library loaded and
\* all five entry points resolved; a library that loaded with an entry point
\* missing is unloaded right after the load and no capability set is returned.
C13_LoaderAllOrNothing ==
  /\ LoaderSound("k2k", K2kSymbols, k2k_api)
  /\ LoaderSound("tk", TkSymbols, tk_api)

\* AqKanji2Koe.dll loaded, an entry point was missing, the library was unloaded
C13_Witness ==
  /\ status = "load_k2k_failed"
  /\ ~k2k_api.has
  /\ calls = <<Call("LoadLibrary", "k2k", 0, 1), Call("FreeLibrary", "k2k", 0, 0)>>

\* the key-registration step of main is behind
KeysDone == tk_api.has /\ pc # "keys"

\* every key registration precedes every Create, Convert and Synthesize call,
\* and no registration entry point of a library is called twice
KeysFirstAndOnce ==
  /\ \A i \in Positions("SetDevKey") \cup Positions("SetUsrKey") :
       \A j \in Positions("Create") \cup Positions("Convert") \cup Positions("Synthe") :
         i < j
  /\ \A lib \in {"k2k", "tk"} :
       Count("SetDevKey", lib) <= 1 /\ Count("SetUsrKey", lib) <= 1
  /\ (CountOp("Create") > 0) => KeysDone

\* C14 (as claimed): each key that is present is pushed into both adapters
\* before any Create, Convert or Synthesize call, each registration entry
\* point is called at most once, and an empty key is not registered.
C14_KeysIntoBothAdapters ==
  /\ KeysFirstAndOnce
  /\ KeysDone =>
       /\ dev_key => (Count("SetDevKey", "k2k") = 1 /\ Count("SetDevKey", "tk") = 1)
       /\ usr_key => (Count("SetUsrKey", "k2k") = 1 /\ Count("SetUsrKey", "tk") = 1)
       /\ ~dev_key => CountOp("SetDevKey") = 0
       /\ ~usr_key => CountOp("SetUsrKey") = 0

\* C14 (amended): the developer key, when present, is pushed into both
\* adapters and the user key, when present, into the synthesis adapter only
\* (the text-to-phoneme library has no user-key entry point), all before any
\* Create, Convert or Synthesize call; each registration entry point is called
\* at most once, and an empty key is not registered.
C14_KeysRegistered ==
  /\ KeysFirstAndOnce
  /\ KeysDone =>
       /\ dev_key => (Count("SetDevKey", "k2k") = 1 /\ Count("SetDevKey", "tk") = 1)
       /\ usr_key => (Count("SetUsrKey", "tk") = 1 /\ Count("SetUsrKey", "k2k") = 0)
       /\ ~dev_key => CountOp("SetDevKey") = 0
       /\ ~usr_key => CountOp("SetUsrKey") = 0

\* both keys present, registered, and the pipeline went on to synthesize
C14_Witness ==
  /\ dev_key /\ usr_key
  /\ CountOp("SetDevKey") = 2 /\ CountOp("SetUsrKey") = 1
  /\ CountOp("Synthe") = 1

\* a loader invocation failed: LoadLibraryW failed, or the library was
\* unloaded again for a missing entry point
LoaderFailed ==
  \/ \E i \in Positions("LoadLibrary") : calls[i].ret = 0
  \/ CountOp("FreeLibrary") > 0

\* C15: when a loader invocation fails the run halts with exit code 3, not the
\* 2 of the missing-files halt, and the only foreign calls made are library
\* loads and unloads: no key registration, Create, Convert or Synthesize.
C15_LoadFailureHalts ==
  /\ LoaderFailed =>
       /\ Done /\ exitCode = 3
       /\ status \in {"load_k2k_failed", "load_tk_failed"}
       /\ \A i \in 1..Len(calls) : calls[i].op \in {"LoadLibrary", "FreeLibrary"}
  /\ exitCode = 3 => LoaderFailed
  /\ status = "missing_sdk_files" => exitCode = 2

\* the first library bound, the second failed to load
C15_Witness ==
  /\ k2k_api.has
  /\ \E i \in Positions("LoadLibrary") : calls[i].who = "tk" /\ calls[i].ret = 0
  /\ Done

\* the calls that take text in an encoding
EncodedCalls == Positions("Convert") \cup Positions("Synthe")

\* C16: within a run every Convert call and the Synthesize call go through
\* the entry points of one encoding, the one --encoding selected: all UTF-8
\* or all legacy, never a mix.
C16_EncodingsAgree ==
  /\ \A i \in EncodedCalls : \A j \in EncodedCalls : calls[i].who = calls[j].who
  /\ \A i \in EncodedCalls :
       calls[i].who = (IF use_sjis THEN "sjis" ELSE "utf8")

\* a legacy-encoding run: two Convert calls and the Synthesize call
C16_Witness ==
  /\ use_sjis
  /\ CountOp("Convert") = 2
  /\ \E i \in Positions("Synthe") : calls[i].who = "sjis"

\* the values main returns
ExitCodes == {0, 2, 3, 4, 5, 6}

\* the next step can end the run with a failure code
CanFailNow == ENABLED (Next /\ pc' = "exit" /\ exitCode' \in ExitCodes \ {0})

\* the loop is at a blank line and a non-blank line is still to come
BlankLineBeforeMore ==
  /\ pc = "loop" /\ idx <= Len(lines) /\ trim(lines[idx]) = <<>>
  /\ \E j \in (idx + 1)..Len(lines) : trim(lines[j]) # <<>>

\* a failed halt can be reached from the pipeline states Idle (args to
\* load_tk), ComponentsLoaded (keys, create), SessionOpen (read),
\* LinesConverting (loop), StreamAssembled (end of loop, synth) and
\* Synthesized (open): at once, or after the steps that lead to a position
\* where it can be reached at once (keys to create, a blank line to the next
\* non-blank one, the end of the loop to exit or synth)
FailReachable ==
  /\ pc \in {"args", "preflight", "load_k2k", "load_tk", "create", "read",
             "synth", "open"} => CanFailNow
  /\ pc = "keys" => ENABLED SetKeys
  /\ (pc = "loop" /\ idx <= Len(lines)) => (CanFailNow \/ BlankLineBeforeMore)
  /\ (pc = "loop" /\ idx > Len(lines)) => ENABLED EndLoop

\* Synthesize returned a non-null buffer of positive size and the write of
\* that buffer was attempted
SynthesizedAndWritten ==
  /\ CountOp("Synthe") = 1
  /\ wav = "buffer" /\ wav_size > 0
  /\ \E i \in Positions("write") :
       /\ calls[i].arg = wav_size
       /\ \A j \in Positions("Synthe") : j < i

\* C18 (as claimed, its last part): exit code 0 is reached only after
\* Synthesize returned a non-null buffer of positive size and the write of
\* that buffer was attempted.
C18_ExitZeroOnlyAfterWrite ==
  (Done /\ exitCode = 0) => SynthesizedAndWritten

\* C18 (amended): every run reaches a terminal state, with an exit code in
\* {0, 2, 3, 4, 5, 6}; a failed halt is reachable from each non-terminal
\* pipeline state; exit code 0 is reached only by the help request, or after
\* Synthesize returned a non-null buffer of positive size and the write of
\* that buffer was attempted.
C18_TerminatesWithCode ==
  /\ <>Done
  /\ [](IF Done THEN exitCode \in ExitCodes ELSE exitCode = -1)
  /\ [](Done \/ ENABLED Next)
  /\ []FailReachable
  /\ []((Done /\ exitCode = 0) => (status = "usage" \/ SynthesizedAndWritten))

\* a run that ended with exit code 0 after the write
C18_Witness == Done /\ exitCode = 0 /\ status = "ok" /\ SynthesizedAndWritten

\* a call that reported failure: a library that did not load, a null session,
\* a non-zero conversion code
FailedCall(c) ==
  \/ c.op \in {"LoadLibrary", "Create"} /\ c.ret = 0
  \/ c.op = "Convert" /\ c.ret # 0

\* C19: each library is loaded at most once and Create is called at most
\* once; Convert is called at most once per line, on non-blank lines only and
\* in input order; Synthesize is called at most once, after a successful
\* Convert of every non-blank line, after the Release of the session and on a
\* non-empty stream; after a failed call only clean-up calls follow.
C19_StagesInOrderOnce ==
  /\ \A lib \in {"k2k", "tk"} : Count("LoadLibrary", lib) <= 1
  /\ CountOp("Create") <= 1
  /\ \A i \in Positions("Convert") :
       /\ inputRead /\ calls[i].arg \in 1..Len(lines)
       /\ trim(lines[calls[i].arg]) # <<>>
       /\ \A j \in Positions("Convert") : i < j => calls[i].arg < calls[j].arg
       /\ \A j \in Positions("LoadLibrary") \cup Positions("Create") : j < i
  /\ CountOp("Synthe") <= 1
  /\ \A s \in Positions("Synthe") :
       /\ \A l \in 1..Len(lines) :
            trim(lines[l]) # <<>> =>
              \E i \in Positions("Convert") :
                i < s /\ calls[i].arg = l /\ calls[i].ret = 0
       /\ ~ConvertFailed
       /\ \E r \in Positions("Release") : r < s
       /\ koe_all # <<>>
  /\ \A i \in 1..Len(calls) :
       FailedCall(calls[i]) =>
         \A j \in (i + 1)..Len(calls) : calls[j].op \in {"Release", "FreeLibrary"}
  /\ (CountOp("Synthe") = 1 /\ (wav = "null" \/ wav_size <= 0)) =>
       (Done /\ calls[Len(calls)].op = "Synthe")

\* a complete run over two converted lines
C19_Witness ==
  /\ Done /\ status = "ok"
  /\ CountOp("Convert") = 2
  /\ CountOp("Synthe") = 1

\* C20: no Convert call follows the Release of the session, and the waveform
\* buffer is read for the file write before FreeWave is called on it, never
\* after; each is released at most once.
C20_NoUseAfterRelease ==
  /\ \A r \in Positions("Release") : \A i \in Positions("Convert") : i < r
  /\ \A f \in Positions("FreeWave") : \A w \in Positions("write") : w < f
  /\ \A r \in Positions("Release") : \A i \in Positions("Create") : i < r
  /\ \A f \in Positions("FreeWave") : \A i \in Positions("Synthe") : i < f
  /\ CountOp("FreeWave") <= 1
  /\ CountOp("write") <= 1

\* the buffer was written to the file and then freed, the session was
\* released after its last Convert
C20_Witness ==
  /\ CountOp("write") = 1 /\ CountOp("FreeWave") = 1
  /\ CountOp("Convert") >= 1 /\ CountOp("Release") = 1

====
